---- MODULE Spec2Model ----
(***************************************************************************)
(* Model of idxrs (src/src/lib.rs): the IDX header parser                  *)
(* create_idx_cursor and the random-access lookup IdxCursor::get.          *)
(*                                                                         *)
(* The byte source is a sequence of bytes with a read position.  A source  *)
(* is built from a header, the big-endian dimension sizes and a data       *)
(* region, and may be cut short anywhere, so that every short read of the  *)
(* code happens.  u32/u64 arithmetic is modelled on the integers: with the *)
(* bounds below no product comes near 2^31, so no wrap-around is modelled. *)
(***************************************************************************)
EXTENDS Integers, Sequences, FiniteSets

\* ---------------------------------------------------------------- bounds
\* highest rank byte of a generated header
MaxRank == 2
\* size of the largest generated header: its rank plus the sum of its
\* dimension sizes
MaxDimWeight == 7
\* size of the largest index tuple of a get call: its length plus the sum of
\* its indices
MaxIdxWeight == 5

\* `as u8` keeps a value modulo 2^8 (lib.rs:142, lib.rs:147)
U8Mod == 256

VARIABLES
    reader,      \* the byte source: [bytes: Seq(0..255), pos: Nat]
    state,       \* "new": not parsed yet; "open": cursor returned; "failed": Err returned
    created,     \* outcome of create_idx_cursor: "None" before the call, "Ok" or the error kind
    dimensions,  \* IdxCursor.dimensions
    data_type,   \* IdxCursor.data_type
    last         \* the last get call: its indices, whether the reader had moved from the
                 \* end of the header before it, the seek target, the result

vars == <<reader, state, created, dimensions, data_type, last>>

\* ------------------------------------------------------------ byte source
Min(a, b) == IF a < b THEN a ELSE b

\* std::io::Read::read_exact: n bytes from the position, or an error when the
\* source ends first
ReadExact(rd, n) ==
    IF rd.pos + n <= Len(rd.bytes)
    THEN [ok |-> TRUE, buf |-> SubSeq(rd.bytes, rd.pos + 1, rd.pos + n), pos |-> rd.pos + n]
    ELSE [ok |-> FALSE, buf |-> <<>>, pos |-> rd.pos]

\* The position a failed read_exact leaves is unspecified: where the read
\* started (nothing consumed) or the end of the source (all of it consumed).
ErrPositions(rd) ==
    IF rd.pos <= Len(rd.bytes) THEN {rd.pos, Len(rd.bytes)} ELSE {rd.pos}

SeekCurrent(rd, p) == [rd EXCEPT !.pos = rd.pos + p]

\* reader.seek(SeekFrom::Start(pos)): an absolute position, also past the end
SeekStart(rd, p) == [rd EXCEPT !.pos = p]

\* u32::from_be_bytes
FromBeBytes(buf) == buf[1] * 16777216 + buf[2] * 65536 + buf[3] * 256 + buf[4]

\* ---------------------------------------------------------------- data type
DataTypes == {"UnsignedByte", "SignedByte", "Short", "Int", "Float", "Double"}

IdxDataType_read_shifted(b) ==
    CASE b = 8  -> "UnsignedByte"
      [] b = 9  -> "SignedByte"
      [] b = 10 -> "Short"
      [] b = 12 -> "Int"
      [] b = 13 -> "Float"
      [] b = 14 -> "Double"
      [] OTHER  -> "UnknownDataType"

\* IdxDataType::read
IdxDataType_read(b) ==
    CASE b = 8  -> "UnsignedByte"
      [] b = 9  -> "SignedByte"
      [] b = 11 -> "Short"
      [] b = 12 -> "Int"
      [] b = 13 -> "Float"
      [] b = 14 -> "Double"
      [] OTHER  -> "UnknownDataType"

\* IdxDataType::get_size, and the length of the buffer of create_buf
get_size(dt) ==
    CASE dt = "UnsignedByte" -> 1
      [] dt = "SignedByte"   -> 1
      [] dt = "Short"        -> 2
      [] dt = "Int"          -> 4
      [] dt = "Float"        -> 4
      [] dt = "Double"       -> 8

\* ------------------------------------------------------- create_idx_cursor
WrongHeaderBoth(buf) == buf[1] # 0 /\ buf[2] # 0

\* lib.rs:24, the magic check
WrongHeader(buf) == buf[1] # 0 \/ buf[2] # 0

PushFront(dims, d) == <<d>> \o dims

\* dimensions.push
Push(dims, d) == Append(dims, d)

RECURSIVE ReadDimensions(_, _, _)
\* the loop of lib.rs:35-38: n times, read 4 bytes and push their value
ReadDimensions(rd, n, dims) ==
    IF n = 0 THEN [kind |-> "Ok", dimensions |-> dims, rd |-> rd]
    ELSE LET r == ReadExact(rd, 4) IN
         IF ~r.ok THEN [kind |-> "IoError", dimensions |-> <<>>, rd |-> rd]
         ELSE ReadDimensions([rd EXCEPT !.pos = r.pos], n - 1, Push(dims, FromBeBytes(r.buf)))

\* create_idx_cursor: the outcome, the cursor's fields and the reader as the
\* last completed read left it (rd is where a failed read started)
create_idx_cursor(rd) ==
    LET h == ReadExact(rd, 4) IN
    IF ~h.ok
    THEN [kind |-> "IoError", dimensions |-> <<>>, data_type |-> "None", rd |-> rd]
    ELSE LET rd4 == [rd EXCEPT !.pos = h.pos] IN
         IF WrongHeader(h.buf)
         THEN [kind |-> "WrongHeader", dimensions |-> <<>>, data_type |-> "None", rd |-> rd4]
         ELSE LET dt == IdxDataType_read(h.buf[3]) IN
              IF dt = "UnknownDataType"
              THEN [kind |-> "UnknownDataType", dimensions |-> <<>>, data_type |-> "None", rd |-> rd4]
              ELSE LET d == ReadDimensions(rd4, h.buf[4], <<>>) IN
                   [kind |-> d.kind, dimensions |-> d.dimensions,
                    data_type |-> IF d.kind = "Ok" THEN dt ELSE "None", rd |-> d.rd]

\* ------------------------------------------------------------ IdxCursor::get
NoSeek == 0 - 1

Value(dt, bytes) ==
    [kind |-> "Ok", needed |-> 0, supplied |-> 0, dimension |-> 0, max |-> 0, index |-> 0,
     data_type |-> dt, bytes |-> bytes]
DimensionMismatch(n, s) ==
    [kind |-> "DimensionMismatch", needed |-> n, supplied |-> s, dimension |-> 0, max |-> 0,
     index |-> 0, data_type |-> "None", bytes |-> <<>>]
OutOfBounds(d, m, i) ==
    [kind |-> "OutOfBounds", needed |-> 0, supplied |-> 0, dimension |-> d, max |-> m,
     index |-> i, data_type |-> "None", bytes |-> <<>>]
IoError ==
    [kind |-> "IoError", needed |-> 0, supplied |-> 0, dimension |-> 0, max |-> 0,
     index |-> 0, data_type |-> "None", bytes |-> <<>>]

\* `x as u8`
AsU8(x) == x % U8Mod

LenMismatchShorter(indices, dims) == Len(indices) < Len(dims)

\* lib.rs:141
LenMismatch(indices, dims) == Len(indices) # Len(dims)

OutOfBoundsAxisStrict(dims, indices) ==
    LET bad == {i \in 1 .. Min(Len(dims), Len(indices)) : indices[i] > dims[i]} IN
    IF bad = {} THEN 0 ELSE CHOOSE i \in bad : \A j \in bad : i <= j

\* the loop of lib.rs:145-149: the first axis (1-based; 0 when none) of
\* dimensions.iter().zip(indices.iter()) with index >= dimension
OutOfBoundsAxis(dims, indices) ==
    LET bad == {i \in 1 .. Min(Len(dims), Len(indices)) : indices[i] >= dims[i]} IN
    IF bad = {} THEN 0 ELSE CHOOSE i \in bad : \A j \in bad : i <= j

RECURSIVE Position(_, _, _, _, _)
\* the loop of lib.rs:151-156 over dimensions.iter().rev().zip(indices.iter().rev());
\* j counts the pairs taken so far
Position(dims, indices, j, pos, mult) ==
    IF j >= Min(Len(dims), Len(indices)) THEN pos
    ELSE LET m == mult * dims[Len(dims) - j] IN
         Position(dims, indices, j + 1, pos + indices[Len(indices) - j] * m, m)

\* lib.rs:160, "Header size = 4B + 4B * dimensions"
HeaderSize(dims) == 4 + 4 * Len(dims)

\* lib.rs:151-160: the byte offset get seeks to
SeekTarget(dims, dt, indices) ==
    Position(dims, indices, 0, 0, 1) * get_size(dt) + HeaderSize(dims)

\* IdxCursor::get: the result, the seek target (NoSeek when it returns before
\* the seek) and the reader as the seek and a completed read leave it
get(rd, dims, dt, indices) ==
    IF LenMismatch(indices, dims)
    THEN [result |-> DimensionMismatch(AsU8(Len(dims)), AsU8(Len(indices))),
          sought |-> NoSeek, rd |-> rd]
    ELSE LET axis == OutOfBoundsAxis(dims, indices) IN
         IF axis # 0
         THEN [result |-> OutOfBounds(AsU8(axis - 1), dims[axis], indices[axis]),
               sought |-> NoSeek, rd |-> rd]
         ELSE LET p  == SeekTarget(dims, dt, indices)
                  sk == SeekStart(rd, p)
                  r  == ReadExact(sk, get_size(dt))
              IN  IF ~r.ok
                  THEN [result |-> IoError, sought |-> p, rd |-> sk]
                  ELSE [result |-> Value(dt, r.buf), sought |-> p,
                        rd |-> [sk EXCEPT !.pos = r.pos]]

\* ------------------------------------------------------------------ inputs
\* u32::to_be_bytes, to lay a dimension size out in a generated file
ToBeBytes(d) ==
    <<(d \div 16777216) % 256, (d \div 65536) % 256, (d \div 256) % 256, d % 256>>

RECURSIVE Flatten(_)
Flatten(ss) == IF ss = <<>> THEN <<>> ELSE Head(ss) \o Flatten(Tail(ss))

RECURSIVE Product(_)
Product(ds) == IF ds = <<>> THEN 1 ELSE Head(ds) * Product(Tail(ds))

\* byte k (0-based) of a generated data region; neighbours differ
DataByte(k) == (10 + k) % 256

\* type tags of generated headers: the six of the format, the gap 0x0A and
\* three more unrecognised ones
TagBytes == {0, 7, 8, 9, 10, 11, 12, 13, 14, 15}

TagWidth(tag) ==
    IF IdxDataType_read(tag) \in DataTypes THEN get_size(IdxDataType_read(tag)) ELSE 1

\* a complete file: header, sizes, and the whole row-major array
File(b0, b1, tag, dims) ==
    <<b0, b1, tag, Len(dims)>>
    \o Flatten([i \in 1 .. Len(dims) |-> ToBeBytes(dims[i])])
    \o [k \in 1 .. TagWidth(tag) * Product(dims) |-> DataByte(k - 1)]

RECURSIVE Sum(_)
Sum(ds) == IF ds = <<>> THEN 0 ELSE Head(ds) + Sum(Tail(ds))

\* the dimension vectors of generated headers
DimensionVectors ==
    UNION {{d \in [1 .. n -> 0 .. MaxDimWeight] : n + Sum(d) <= MaxDimWeight} : n \in 0 .. MaxRank}

\* where a file is cut: inside the first four bytes, one byte short of the
\* end of the header, one byte short of the end, or not at all
Cuts(f) ==
    LET hdr == 4 + 4 * f[4] IN
    {c \in 0 .. Len(f) : c <= 4 \/ c = hdr - 1 \/ c >= Len(f) - 1}

FileSources(f) == {SubSeq(f, 1, c) : c \in Cuts(f)}

Sources ==
    UNION {FileSources(File(t[1], t[2], t[3], t[4])) :
             t \in {0, 1} \X {0, 1} \X TagBytes \X DimensionVectors}

\* index tuples of a get call: the tuples up to the highest rank, and two
\* longer than a u8 can count
LongLens == {U8Mod, U8Mod + 1}
IndexTuples ==
    UNION {{x \in [1 .. n -> 0 .. MaxIdxWeight] : n + Sum(x) <= MaxIdxWeight} : n \in 0 .. MaxRank}
    \cup {[i \in 1 .. n |-> 0] : n \in LongLens}

NoCall == [indices |-> <<>>, moved |-> FALSE, sought |-> NoSeek, result |-> IoError, made |-> FALSE]

\* ------------------------------------------------------------------ machine
Init ==
    /\ reader \in {[bytes |-> s, pos |-> 0] : s \in Sources}
    /\ state = "new"
    /\ created = "None"
    /\ dimensions = <<>>
    /\ data_type = "None"
    /\ last = NoCall

\* create_idx_cursor(reader)
Create ==
    /\ state = "new"
    /\ LET c == create_idx_cursor(reader) IN
       /\ created' = c.kind
       /\ state' = IF c.kind = "Ok" THEN "open" ELSE "failed"
       /\ dimensions' = c.dimensions
       /\ data_type' = c.data_type
       /\ \E p \in (IF c.kind = "IoError" THEN ErrPositions(c.rd) ELSE {c.rd.pos}) :
              reader' = [c.rd EXCEPT !.pos = p]
    /\ UNCHANGED last

\* cursor.get(indices)
Get ==
    /\ state = "open"
    /\ \E indices \in IndexTuples :
         LET g == get(reader, dimensions, data_type, indices) IN
         /\ last' = [indices |-> indices, moved |-> reader.pos # HeaderSize(dimensions),
                     sought |-> g.sought,
                     result |-> g.result, made |-> TRUE]
         /\ \E p \in (IF g.result.kind = "IoError" THEN ErrPositions(g.rd) ELSE {g.rd.pos}) :
                reader' = [g.rd EXCEPT !.pos = p]
    /\ UNCHANGED <<state, created, dimensions, data_type>>

Next == Create \/ Get

\* the shape of the state: the reader and, once created, the cursor's fields
TypeOK ==
    /\ reader.pos \in Nat
    /\ \A i \in 1 .. Len(reader.bytes) : reader.bytes[i] \in 0 .. 255
    /\ state \in {"new", "open", "failed"}
    /\ created \in {"None", "Ok", "IoError", "WrongHeader", "UnknownDataType"}
    /\ state = "open" <=> created = "Ok"
    /\ state = "open" => data_type \in DataTypes
    /\ \A i \in 1 .. Len(dimensions) : dimensions[i] \in Nat
    /\ last.made => state = "open"

Spec == Init /\ [][Next]_vars

\* ----------------------------------------------------------- the claims
\* the source as it was handed to create_idx_cursor (get never writes it)
bytes == reader.bytes
HasHeader == Len(bytes) >= 4
Parsed == state # "new"

\* the type tags of the format with their types and byte widths (spec, 4.1 and 3)
TypeTable ==
    {<<8, "UnsignedByte", 1>>, <<9, "SignedByte", 1>>, <<11, "Short", 2>>,
     <<12, "Int", 4>>, <<13, "Float", 4>>, <<14, "Double", 8>>}
KnownTag(tag) == \E row \in TypeTable : row[1] = tag
ValidHeader == HasHeader /\ bytes[1] = 0 /\ bytes[2] = 0 /\ KnownTag(bytes[3])

\* the big-endian value of the i-th dimension size of the header
HeaderDim(i) ==
    bytes[4 * i + 1] * 16777216 + bytes[4 * i + 2] * 65536 + bytes[4 * i + 3] * 256
    + bytes[4 * i + 4]

InBounds(indices, dims) ==
    /\ Len(indices) = Len(dims)
    /\ \A i \in 1 .. Len(dims) : indices[i] < dims[i]

RECURSIVE RowMajor(_, _)
\* the row-major flat index: sum_i indices[i] * product_{j>i} dims[j]
RowMajor(indices, dims) ==
    IF indices = <<>> THEN 0
    ELSE Head(indices) * Product(Tail(dims)) + RowMajor(Tail(indices), Tail(dims))

Width == get_size(data_type)

\* C1: an in-bounds get seeks to (4 + 4R) + w * (row-major flat index) and
\* returns the w bytes stored there.
C1_RowMajorOffset ==
    (last.made /\ InBounds(last.indices, dimensions)) =>
        LET off == (4 + 4 * Len(dimensions)) + Width * RowMajor(last.indices, dimensions) IN
        /\ last.sought = off
        /\ (off + Width <= Len(bytes) =>
                last.result = Value(data_type, SubSeq(bytes, off + 1, off + Width)))

\* C2: a get whose index tuple has a length L other than the rank R fails
\* with DimensionMismatch{needed: R, supplied: L}, L being the given length
\* whatever it is, before any bounds check or seek.
C2_SuppliedIsLength ==
    (last.made /\ Len(last.indices) # Len(dimensions)) =>
        /\ last.result = DimensionMismatch(Len(dimensions), Len(last.indices))
        /\ last.sought = NoSeek

\* C3: a get with a tuple of the cursor's rank fails with OutOfBounds naming
\* the lowest violating axis, that axis's size and the index given for it;
\* when no axis violates it does not fail with OutOfBounds.
C3_FirstViolation ==
    (last.made /\ Len(last.indices) = Len(dimensions)) =>
        /\ \A i \in 1 .. Len(dimensions) :
               (/\ last.indices[i] >= dimensions[i]
                /\ \A j \in 1 .. i - 1 : last.indices[j] < dimensions[j])
               => last.result = OutOfBounds(i - 1, dimensions[i], last.indices[i])
        /\ InBounds(last.indices, dimensions) => last.result.kind # "OutOfBounds"

\* C3 witness: two axes violate and axis 0 is the one reported.
C3_Witness ==
    /\ last.made
    /\ Len(dimensions) = 2 /\ Len(last.indices) = 2
    /\ last.indices[1] >= dimensions[1] /\ last.indices[2] >= dimensions[2]
    /\ last.result.kind = "OutOfBounds" /\ last.result.dimension = 0

\* C4: with a four-byte header present, a nonzero byte 0 or byte 1 makes
\* create_idx_cursor fail with WrongHeader, whatever the tag, the rank byte
\* and the rest are; no cursor is returned.
C4_WrongHeader ==
    (Parsed /\ HasHeader /\ (bytes[1] # 0 \/ bytes[2] # 0)) =>
        /\ created = "WrongHeader"
        /\ state = "failed"

\* C4 witness: only byte 1 is nonzero, the tag is unrecognised, a rank and
\* more bytes follow.
C4_Witness ==
    /\ created = "WrongHeader"
    /\ bytes[1] = 0 /\ bytes[2] # 0
    /\ ~KnownTag(bytes[3]) /\ bytes[4] > 0 /\ Len(bytes) > 4

\* C5: with zero magic bytes, byte 2 is resolved by the table of the format:
\* a tag of the table never gives UnknownDataType, and the cursor has the
\* table's type and reads the table's width; every other tag gives
\* UnknownDataType with the reader still at offset 4.
C5_TypeLookup ==
    (Parsed /\ HasHeader /\ bytes[1] = 0 /\ bytes[2] = 0) =>
        IF KnownTag(bytes[3])
        THEN /\ created # "UnknownDataType"
             /\ state = "open" =>
                    \E row \in TypeTable :
                        /\ row[1] = bytes[3]
                        /\ data_type = row[2]
                        /\ get_size(data_type) = row[3]
                        /\ last.result.kind = "Ok" => Len(last.result.bytes) = row[3]
        ELSE /\ created = "UnknownDataType"
             /\ state = "failed"
             /\ reader.pos = 4

\* C5 witness: the tag 0x0A, between SignedByte and Short, is rejected while
\* dimension sizes follow unread.
C5_Witness ==
    /\ created = "UnknownDataType"
    /\ bytes[3] = 10 /\ bytes[4] = 2 /\ Len(bytes) >= 12
    /\ reader.pos = 4

\* C6: on a valid header with rank byte n the cursor's dimensions are the n
\* big-endian sizes in header order and the reader is left at 4 + 4n; when
\* the source has fewer than 4 + 4n bytes the call fails with IoError and
\* returns no cursor.
C6_Dimensions ==
    (Parsed /\ ValidHeader) =>
        LET n == bytes[4] IN
        IF Len(bytes) >= 4 + 4 * n
        THEN /\ created = "Ok" /\ state = "open"
             /\ Len(dimensions) = n
             /\ \A i \in 1 .. n : dimensions[i] = HeaderDim(i)
             /\ ~last.made => reader.pos = 4 + 4 * n
        ELSE /\ created = "IoError" /\ state = "failed"
             /\ dimensions = <<>>

\* C6 witness: a cursor of rank 2 with two different sizes, just created.
C6_Witness ==
    /\ state = "open" /\ ~last.made
    /\ Len(dimensions) = 2 /\ dimensions[1] < dimensions[2]
    /\ reader.pos = 12

\* C7: whatever calls came before, a get gives the result it gives as the
\* first call on the cursor, when the reader is where parsing left it.
C7_PositionIndependent ==
    last.made =>
        last.result =
            get([reader EXCEPT !.pos = 4 + 4 * Len(dimensions)], dimensions, data_type,
                last.indices).result

\* C7 witness: a get that found the reader moved by earlier calls and
\* returned a value.
C7_Witness ==
    /\ last.made /\ last.moved
    /\ last.result.kind = "Ok"
    /\ reader.pos # 4 + 4 * Len(dimensions) + Width

\* C8 as stated: on a cursor of rank 0 no get returns a value.
C8_NoValueAtRankZero ==
    (state = "open" /\ dimensions = <<>> /\ last.made) => last.result.kind # "Ok"

\* C8 amended: a header with rank byte 0 is accepted and gives a cursor with
\* empty dimensions; on it every non-empty index tuple fails with
\* DimensionMismatch, and the empty tuple passes both checks: get seeks to
\* offset 4 and returns the w bytes there, or fails with IoError when the
\* source has fewer.
C8_RankZero ==
    /\ (Parsed /\ ValidHeader /\ bytes[4] = 0) =>
           (created = "Ok" /\ state = "open" /\ dimensions = <<>>)
    /\ (state = "open" /\ dimensions = <<>> /\ last.made) =>
           IF last.indices # <<>>
           THEN last.result.kind = "DimensionMismatch" /\ last.result.needed = 0
           ELSE /\ last.sought = 4
                /\ IF Len(bytes) >= 4 + Width
                   THEN last.result = Value(data_type, SubSeq(bytes, 5, 4 + Width))
                   ELSE last.result.kind = "IoError"

\* C8 witness: get with the empty tuple on a cursor of rank 0 returns a value.
C8_Witness ==
    /\ state = "open" /\ dimensions = <<>>
    /\ last.made /\ last.indices = <<>>
    /\ last.result.kind = "Ok" /\ last.sought = 4

\* C9: the w bytes an in-bounds get reads lie inside the data region, so on
\* a source holding the complete array it does not fail with IoError.
C9_InsideDataRegion ==
    (last.made /\ InBounds(last.indices, dimensions)) =>
        LET hdr == 4 + 4 * Len(dimensions) IN
        /\ hdr <= last.sought
        /\ last.sought + Width <= hdr + Width * Product(dimensions)
        /\ (Len(bytes) >= hdr + Width * Product(dimensions)) => last.result.kind # "IoError"

\* C10: on one cursor two different in-bounds index tuples never have the
\* same byte offset.
C10_Injective ==
    state = "open" =>
        \A x, y \in {t \in IndexTuples : InBounds(t, dimensions)} :
            x # y => SeekTarget(dimensions, data_type, x) # SeekTarget(dimensions, data_type, y)

====
